---- MODULE Spec2Model ----
(***************************************************************************)
(* Model of the EntityForm session of ankurah/react-forms                  *)
(* (src/src/index.tsx): the overlay of staged edits, its reconciliation    *)
(* against a live view, the dirty memo, the editing state machine and the  *)
(* asynchronous submit.                                                    *)
(*                                                                         *)
(* React is modelled by its two kinds of step.  A handler (event handler,  *)
(* subscription callback, promise continuation) runs with the closures of  *)
(* the last render and updates the hook state; it leaves needsRender set   *)
(* when some hook state changed.  Render is one React commit: it derives   *)
(* view/isNew/formMode/editing from the hook state and the props, refreshes *)
(* the useMemo value and runs the effects whose dependencies changed.      *)
(* While a render is pending nothing else runs (React flushes the pending  *)
(* render and its effects before it dispatches the next event).            *)
(*                                                                         *)
(* A field path "address.city" is represented by its segments              *)
(* <<"address", "city">>; includes('.') is Len(path) > 1.                   *)
(***************************************************************************)
EXTENDS Integers, Sequences, FiniteSets, Bags, TLC

\* ---------------------------------------------------------------- bounds
\* At most this many submits may be awaiting their create/commit at once.
MaxInFlight == 2

\* ---------------------------------------------------------------- values
NONE == 0                 \* null view / null entity id
UNMOUNTED == -1           \* no render has happened yet
NULL == "<null>"          \* JavaScript null
UNDEF == "<undefined>"    \* JavaScript undefined
DEFAULT == "<default>"    \* a prop the parent does not pass

PropViews == {1, 2}       \* views the parent can pass as the view prop
FirstCreated == 3         \* ids of the views Model.create returns: 3, 4, ...

NamePath == <<"name">>
CityPath == <<"address", "city">>
Paths == {NamePath, CityPath}          \* the <Field name=...> of the form

NameInputs == {"", "b"}           \* what the user can type into name
CityInputs == {"x"}                    \* what the user can type into city
Inputs(p) == IF p = NamePath THEN NameInputs ELSE CityInputs

NoAddress == [some |-> FALSE, street1 |-> UNDEF, city |-> UNDEF]
Address(s, c) == [some |-> TRUE, street1 |-> s, city |-> c]
RemoteNames == {"a", "b"}
RemoteAddresses == {NoAddress, Address("s", "x")}

\* what model.create / trx.commit can reject with: an Error carrying a
\* message, or a value that is not an Error (say a thrown string)
Rejections == {[isError |-> TRUE, message |-> "commit failed"],
               [isError |-> FALSE, message |-> "boom"]}

VARIABLES
  deps,            \* module state: initAnkurahForms has supplied the backend
  mounted,         \* the EntityForm instance is mounted
  viewProp,        \* prop: the view the parent passes (NONE: create mode)
  modeProp,        \* prop: "r" | "rw" | "w" | DEFAULT (by isNew)
  editTrigger,     \* prop, resolved: "field" (the default) | "form" | NULL
  createdView,     \* useState: view returned by Model.create
  isEditing,       \* useState
  wasCreating,     \* useRef
  overlay,         \* useState: path -> staged value
  saveError,       \* useState: NULL or message
  isSubmitting,    \* useState
  guard,           \* entity id the live subscription is on, or NONE
  rEntityId,       \* entityId of the last render (effect/memo dependency)
  rEditing,        \* `editing` of the last render
  hasDirtyFields,  \* useMemo value of the last render
  overlayFresh,    \* the overlay object was replaced since the last render
  needsRender,     \* a state/prop change awaits its render
  data,            \* the current field values of the bound view (live)
  inflight,        \* bag of the submits awaiting model.create / trx.commit
  lastOp,          \* history: the step that produced this state
  lastArg          \* history: its input (setField: <<path, value>>,
                   \* settleFail: <<rejection, callbacks invoked>>,
                   \* settleOk: <<kind of submit, callbacks invoked, view
                   \* passed to onCreate>>) or what
                   \* it met (render: <<identity changed, editing ended,
                   \* overlay was not empty, a view became bound, guard
                   \* freed, view subscribed to>>; unmount: <<guard freed>>;
                   \* a click, Cancel or blur: the callbacks invoked)

vars == <<deps, mounted, viewProp, modeProp, editTrigger, createdView, isEditing,
          wasCreating, overlay, saveError, isSubmitting, guard, rEntityId,
          rEditing, hasDirtyFields, overlayFresh, needsRender, data,
          inflight, lastOp, lastArg>>

props == <<viewProp, modeProp, editTrigger>>

EmptyOverlay == [p \in {} |-> ""]

\* ------------------------------------------------------- nested values
\* A view object is its identity e (NONE: no view) with its live values d.
\* view[root]
ViewRoot(d, root) ==
  IF root = "name" THEN d.name
  ELSE IF root = "email" THEN d.email
  ELSE IF root = "address" THEN d.addr
  ELSE UNDEF                         \* not a property of the view

\* getNestedValue(view, path)
getNestedValue(e, d, path) ==
  IF e = NONE THEN UNDEF
  ELSE IF Len(path) = 1 THEN ViewRoot(d, path[1])
  ELSE IF ~ViewRoot(d, path[1]).some THEN UNDEF
  ELSE IF path[2] = "city" THEN ViewRoot(d, path[1]).city
  ELSE ViewRoot(d, path[1]).street1

\* ------------------------------------------------------ derived values
\* const view = viewProp ?? createdView
ViewOf(vp, cv) == IF vp # NONE THEN vp ELSE cv
view == ViewOf(viewProp, createdView)
isNew == view = NONE
\* const formMode = modeProp ?? (isNew ? "w" : "rw")
FormModeOf(mp, new) == IF mp # DEFAULT THEN mp ELSE IF new THEN "w" ELSE "rw"
formMode == FormModeOf(modeProp, isNew)
\* const editing = formMode === "w" ? true : formMode === "r" ? false : isEditing
\* (variant: the "w" case left out)
EditingOfWithoutW(fm, ie) == IF fm = "r" THEN FALSE ELSE ie
EditingOf(fm, ie) == IF fm = "w" THEN TRUE ELSE IF fm = "r" THEN FALSE ELSE ie
editing == EditingOf(formMode, isEditing)

\* the body of the hasDirtyFields useMemo
\* (variant: create mode compared against the view like edit mode)
ComputeDirtyAgainstView(ov, e, d) ==
  \E k \in DOMAIN ov : ov[k] # getNestedValue(e, d, k)
ComputeDirty(ov, e, d) ==
  IF e = NONE
  THEN \E k \in DOMAIN ov : ov[k] # ""
  ELSE \E k \in DOMAIN ov : ov[k] # getNestedValue(e, d, k)

\* the updater of the subscribe callback
\* (variant: only top-level paths are compared)
PruneTopLevel(prev, e, d) ==
  [k \in {q \in DOMAIN prev : Len(q) > 1 \/ getNestedValue(e, d, q) # prev[q]}
     |-> prev[k]]
\* (variant: every staged path is kept and takes the view's new value)
PruneResyncs(prev, e, d) == [k \in DOMAIN prev |-> getNestedValue(e, d, k)]
Prune(prev, e, d) ==
  [k \in {q \in DOMAIN prev : getNestedValue(e, d, q) # prev[q]} |-> prev[k]]

\* the updater of setOverlayValue
\* (variant: the value is staged whatever the view holds)
SetValueAlways(prev, e, d, name, value) ==
  [k \in DOMAIN prev \cup {name} |-> IF k = name THEN value ELSE prev[k]]
SetValue(prev, e, d, name, value) ==
  IF value = getNestedValue(e, d, name)
  THEN [k \in DOMAIN prev \ {name} |-> prev[k]]
  ELSE [k \in DOMAIN prev \cup {name} |-> IF k = name THEN value ELSE prev[k]]

\* ------------------------------------------------------------- initial
NoData == [name |-> UNDEF, email |-> UNDEF, addr |-> NoAddress]
\* What a view holds when the form is bound to it: whatever its writers left.
BindData == {[name |-> "a", email |-> "e", addr |-> Address("s", "x")],
             [name |-> "b", email |-> "e", addr |-> NoAddress]}

\* The state EntityForm is constructed in, for the props the parent passes.
InitWith(modes, triggers) ==
  /\ mounted = TRUE
  /\ viewProp \in {NONE} \cup PropViews
  /\ modeProp \in modes
  /\ editTrigger \in triggers
  /\ createdView = NONE
  /\ isEditing = FALSE
  /\ wasCreating = (viewProp = NONE)
  /\ overlay = EmptyOverlay
  /\ saveError = NULL
  /\ isSubmitting = FALSE
  /\ guard = NONE
  /\ rEntityId = UNMOUNTED
  /\ rEditing = FALSE
  /\ hasDirtyFields = FALSE
  /\ overlayFresh = TRUE
  /\ needsRender = TRUE
  /\ data \in (IF viewProp = NONE THEN {NoData} ELSE BindData)
  /\ inflight = EmptyBag
  /\ lastOp = "init"
  /\ lastArg = <<>>

\* the parent passes neither mode nor editTrigger
Init == deps = TRUE /\ InitWith({DEFAULT}, {"field"})
\* every mode; the trigger is read only when the mode can be "rw"
InitProps ==
  /\ deps = TRUE
  /\ InitWith({DEFAULT, "r", "rw", "w"}, {"field", "form", NULL})
  /\ modeProp \in {"r", "w"} => editTrigger = "field"

\* ------------------------------------------------------------- render
\* useEffect(..., [entityId]): setOverlay({}); setSaveError(null)
\* (variant: the effect is missing)
ClearOnIdentityNever(chgId) == FALSE
ClearOnIdentity(chgId) == chgId

\* useEffect(..., [editing]): if (!editing) { setOverlay({}); setSaveError(null) }
\* (variant: the test reads `if (editing)`)
ClearOnEnter(chgEd, ed) == chgEd /\ ed
ClearOnExit(chgEd, ed) == chgEd /\ ~ed

\* the cleanup of the subscribe effect, run before the effect runs again:
\* the guard it frees (NONE: no cleanup runs, or none was returned)
\* (variant: the effect has no dependency list, so it runs after every render)
CleanupFreesEveryRender(chgId, g) == g
CleanupFrees(chgId, g) == IF chgId THEN g ELSE NONE

Render ==
  /\ mounted
  /\ needsRender
  /\ LET first    == rEntityId = UNMOUNTED
         chgIsNew == first \/ ((rEntityId = NONE) # isNew)
         chgId    == first \/ rEntityId # view
         chgEd    == first \/ rEditing # editing
         stay     == chgIsNew /\ wasCreating /\ ~isNew
         clear    == ClearOnIdentity(chgId) \/ ClearOnExit(chgEd, editing)
     IN /\ hasDirtyFields' =
             IF overlayFresh \/ chgId \/ chgIsNew
             THEN ComputeDirty(overlay, view, data) ELSE hasDirtyFields
        /\ isEditing' = IF stay THEN TRUE ELSE isEditing
        /\ wasCreating' = IF chgIsNew THEN isNew ELSE wasCreating
        /\ overlay' = IF clear THEN EmptyOverlay ELSE overlay
        /\ saveError' = IF clear THEN NULL ELSE saveError
        /\ guard' = IF chgId THEN view ELSE guard
        /\ overlayFresh' = clear
        /\ needsRender' = (clear \/ (stay /\ ~isEditing))
        /\ rEntityId' = view
        /\ rEditing' = editing
  /\ lastOp' = "render"
  /\ lastArg' = <<rEntityId # UNMOUNTED /\ rEntityId # view,
                  rEntityId # UNMOUNTED /\ rEditing /\ ~editing,
                  overlay # EmptyOverlay,
                  rEntityId = NONE /\ view # NONE,
                  CleanupFrees(rEntityId = UNMOUNTED \/ rEntityId # view, guard),
                  IF rEntityId = UNMOUNTED \/ rEntityId # view
                  THEN view ELSE NONE>>
  /\ UNCHANGED <<deps, mounted, props, createdView, isSubmitting, data, inflight>>

settled == mounted /\ ~needsRender

\* The form is unmounted: the cleanup of the subscribe effect frees the guard.
\* What an unmounted instance's pending continuations do is no state of the
\* form (React drops their setState calls), so the instance ends here.
Unmount ==
  /\ mounted
  /\ rEntityId # UNMOUNTED
  /\ mounted' = FALSE
  /\ guard' = NONE
  /\ lastOp' = "unmount"
  /\ lastArg' = <<guard>>
  /\ UNCHANGED <<deps, props, createdView, isEditing, wasCreating, overlay,
                 saveError, isSubmitting, rEntityId, rEditing, hasDirtyFields,
                 overlayFresh, needsRender, data, inflight>>

\* initAnkurahForms(deps)
InitAnkurahForms ==
  /\ ~deps
  /\ deps' = TRUE
  /\ lastOp' = "initForms"
  /\ lastArg' = <<>>
  /\ UNCHANGED <<mounted, props, createdView, isEditing, wasCreating, overlay,
                 saveError, isSubmitting, guard, rEntityId, rEditing,
                 hasDirtyFields, overlayFresh, needsRender, data, inflight>>

\* ------------------------------------------------------- field edits
\* setOverlayValue(name, value), the onChange of an enabled <Field>
\* (variant: the error is cleared only when the call changes the overlay)
SetFieldBodyKeepsError(name, value) ==
  LET same == value = getNestedValue(view, data, name) /\ name \notin DOMAIN overlay
  IN /\ overlay' = SetValue(overlay, view, data, name, value)
     /\ overlayFresh' = ~same
     /\ saveError' = IF same THEN saveError ELSE NULL
     /\ needsRender' = ~same
SetFieldBody(name, value) ==
  LET same == value = getNestedValue(view, data, name) /\ name \notin DOMAIN overlay
  IN /\ overlay' = SetValue(overlay, view, data, name, value)
     /\ overlayFresh' = ~same
     /\ saveError' = NULL
     /\ needsRender' = (~same \/ saveError # NULL)

SetField(name, value) ==
  /\ settled
  /\ editing                       \* isDisabled = disabled || !editing
  /\ SetFieldBody(name, value)
  /\ lastOp' = "setField"
  /\ lastArg' = <<name, value>>
  /\ UNCHANGED <<deps, mounted, props, createdView, isEditing, wasCreating, isSubmitting,
                 guard, rEntityId, rEditing, hasDirtyFields, data, inflight>>

\* clearSaveError(), the dismiss button of <SaveError>
ClearSaveError ==
  /\ settled
  /\ saveError # NULL
  /\ saveError' = NULL
  /\ needsRender' = TRUE
  /\ lastOp' = "clearSaveError"
  /\ lastArg' = <<>>
  /\ UNCHANGED <<deps, mounted, props, createdView, isEditing, wasCreating, overlay,
                 isSubmitting, guard, rEntityId, rEditing, hasDirtyFields,
                 overlayFresh, data, inflight>>

\* ---------------------------------------------------------- activation
\* startEditing(): the value isEditing has after the call
StartEditingOf(fm, ie) == IF fm = "rw" /\ ~ie THEN TRUE ELSE ie
\* stopEditing(): the value isEditing has after the call
StopEditingOf(fm, ie) == IF fm = "rw" /\ ie THEN FALSE ELSE ie

\* the callback props startEditing() / stopEditing() invoke
StartEditingCalls(fm, ie) == IF fm = "rw" /\ ~ie THEN <<"onStartEditing">> ELSE <<>>
StopEditingCalls(fm, ie) == IF fm = "rw" /\ ie THEN <<"onStopEditing">> ELSE <<>>

ActivationFrame ==
  UNCHANGED <<deps, mounted, props, createdView, wasCreating, overlay, saveError,
              isSubmitting, guard, rEntityId, rEditing, hasDirtyFields,
              overlayFresh, data, inflight>>

\* the <EditTrigger> button: rendered unless editing or mode "r"
EditTriggerClick ==
  /\ settled
  /\ ~editing /\ formMode # "r"
  /\ isEditing' = StartEditingOf(formMode, isEditing)
  /\ needsRender' = (isEditing' # isEditing)
  /\ lastOp' = "editTrigger"
  /\ lastArg' = StartEditingCalls(formMode, isEditing)
  /\ ActivationFrame

\* Field.handleStartEditing, then the click bubbles to the form's onClick
\* (variant: the trigger policy is not read)
canStartEditingAnyPolicy == formMode = "rw" /\ ~editing
canStartEditing ==
  formMode = "rw" /\ editTrigger \in {"field", "form"} /\ ~editing
FieldClick ==
  /\ settled
  /\ isEditing' = IF canStartEditing \/ (formMode = "rw" /\ editTrigger = "form" /\ ~editing)
                  THEN StartEditingOf(formMode, isEditing) ELSE isEditing
  /\ needsRender' = (isEditing' # isEditing)
  /\ lastOp' = "fieldClick"
  /\ lastArg' = (IF canStartEditing
                 THEN StartEditingCalls(formMode, isEditing) ELSE <<>>)
                \o (IF formMode = "rw" /\ editTrigger = "form" /\ ~editing
                    THEN StartEditingCalls(formMode, isEditing) ELSE <<>>)
  /\ ActivationFrame

\* handleFormClick for a click inside the form but outside every field
FormClick ==
  /\ settled
  /\ isEditing' = IF editTrigger = "form" /\ formMode = "rw" /\ ~editing
                  THEN StartEditingOf(formMode, isEditing) ELSE isEditing
  /\ needsRender' = (isEditing' # isEditing)
  /\ lastOp' = "formClick"
  /\ lastArg' = IF editTrigger = "form" /\ formMode = "rw" /\ ~editing
                THEN StartEditingCalls(formMode, isEditing) ELSE <<>>
  /\ ActivationFrame

\* the <Cancel> button: rendered in mode "rw", disabled while submitting
CancelClick ==
  /\ settled
  /\ formMode = "rw" /\ ~isSubmitting
  /\ isEditing' = StopEditingOf(formMode, isEditing)
  /\ needsRender' = (isEditing' # isEditing)
  /\ lastOp' = "cancel"
  /\ lastArg' = StopEditingCalls(formMode, isEditing)
  /\ ActivationFrame

\* handleFormBlur; inside: relatedTarget is an element of the form
\* (variant: the dirty test is missing)
BlurStopsDirty(fm, inside, dirty) == fm = "rw" /\ ~inside
BlurStops(fm, inside, dirty) == fm = "rw" /\ ~inside /\ ~dirty
FormBlur(inside) ==
  /\ settled
  /\ isEditing' = IF BlurStops(formMode, inside, hasDirtyFields)
                  THEN StopEditingOf(formMode, isEditing) ELSE isEditing
  /\ needsRender' = (isEditing' # isEditing)
  /\ lastOp' = IF inside THEN "blurInside" ELSE "blurOut"
  /\ lastArg' = IF BlurStops(formMode, inside, hasDirtyFields)
                THEN StopEditingCalls(formMode, isEditing) ELSE <<>>
  /\ ActivationFrame

\* ------------------------------------------------------------- props
\* the parent renders the form with another view prop
SetViewProp(v) ==
  /\ settled
  /\ v # viewProp
  /\ viewProp' = v
  /\ data' \in (IF ViewOf(v, createdView) = NONE THEN {NoData} ELSE BindData)
  /\ needsRender' = TRUE
  /\ lastOp' = "setViewProp"
  /\ lastArg' = <<>>
  /\ UNCHANGED <<deps, mounted, modeProp, editTrigger, createdView, isEditing,
                 wasCreating, overlay, saveError, isSubmitting, guard,
                 rEntityId, rEditing, hasDirtyFields, overlayFresh, inflight>>

\* ----------------------------------------------------- remote updates
\* An external change of the bound view's values to d.  The view notifies its
\* subscribers; the form's callback prunes the overlay and forces a render.
\* (Changes of views the form is not bound to are invisible to it: they show
\* only in the values found at the next binding, see BindData.)
RemoteUpdate(d) ==
  /\ settled
  /\ view # NONE
  /\ d # data
  /\ data' = d
  /\ IF guard = view
     THEN /\ overlay' = Prune(overlay, view, d)
          /\ overlayFresh' = (overlayFresh \/ DOMAIN overlay' # DOMAIN overlay)
          /\ needsRender' = TRUE
          /\ lastOp' = "notify"
          /\ lastArg' = <<>>
     ELSE /\ UNCHANGED <<overlay, overlayFresh, needsRender>>
          /\ lastOp' = "remote"
          /\ lastArg' = <<>>
  /\ UNCHANGED <<deps, mounted, props, createdView, isEditing, wasCreating, saveError,
                 isSubmitting, guard, rEntityId, rEditing, hasDirtyFields,
                 inflight>>

\* ------------------------------------------------------------- submit
\* value === "" ? null : value
\* (variant: the empty string is passed on)
NormKeepsEmpty(v) == v
Norm(v) == IF v = "" THEN NULL ELSE v

\* groupByRoot as its loop runs over Object.entries(overlay) in the order
\* keys: a bare key is assigned, a dotted key is set in result[root] ?? {}
RECURSIVE groupByRootLoop(_, _)
groupByRootLoop(ov, keys) ==
  IF keys = <<>> THEN [r \in {} |-> [obj |-> FALSE, val |-> ""]]
  ELSE LET result == groupByRootLoop(ov, SubSeq(keys, 1, Len(keys) - 1))
           key    == keys[Len(keys)]
           root   == key[1]
           nested == IF root \in DOMAIN result THEN result[root].val
                     ELSE [sub \in {} |-> ""]
       IN [r \in DOMAIN result \cup {root} |->
             IF r # root THEN result[r]
             ELSE IF Len(key) = 1 THEN [obj |-> FALSE, val |-> ov[key]]
             ELSE [obj |-> TRUE,
                   val |-> [sub \in DOMAIN nested \cup {key[2]} |->
                              IF sub = key[2] THEN ov[key] ELSE nested[sub]]]]

\* the dotted keys a grouped edit was built from: the inverse the
\* specification calls flatten
Flatten(g) ==
  [k \in {<<r>> : r \in {q \in DOMAIN g : ~g[q].obj}}
         \cup UNION {{<<r, sub>> : sub \in DOMAIN g[r].val} :
                        r \in {q \in DOMAIN g : g[q].obj}} |->
     IF Len(k) = 1 THEN g[k[1]].val ELSE g[k[1]].val[k[2]]]

\* groupByRoot(overlay): root -> a scalar (obj FALSE) or the nested mapping
\* of its sub-fields (obj TRUE)
\* (variant: result[root] = {} before each dotted key, so one sub-field stays)
groupByRootOneSub(ov) ==
  [r \in {k[1] : k \in DOMAIN ov} |->
     IF \E k \in DOMAIN ov : Len(k) > 1 /\ k[1] = r
     THEN [obj |-> TRUE,
           val |-> LET last == CHOOSE k \in DOMAIN ov : Len(k) > 1 /\ k[1] = r
                   IN [sub \in {last[2]} |-> ov[last]]]
     ELSE [obj |-> FALSE, val |-> ov[<<r>>]]]
groupByRoot(ov) ==
  [r \in {k[1] : k \in DOMAIN ov} |->
     IF \E k \in DOMAIN ov : Len(k) > 1 /\ k[1] = r
     THEN [obj |-> TRUE,
           val |-> [sub \in {k[2] : k \in {q \in DOMAIN ov : Len(q) > 1 /\ q[1] = r}}
                      |-> ov[<<r, sub>>]]]
     ELSE [obj |-> FALSE, val |-> ov[<<r>>]]]

\* the operations mutable[root] exposes: name is a text field (replace),
\* email a plain value (set), address an embedded struct (set); any other
\* root (a <Field> named after no property of the model) has no handle
HasReplace(root) == root = "name"
HasSet(root) == root \in {"email", "address"}

\* const merged = { ...(viewValue ?? {}), ...normalized sub-fields }
\* (variant: the existing object is not copied)
MergedFromEmpty(existing, sub) ==
  [some    |-> TRUE,
   street1 |-> IF "street1" \in DOMAIN sub THEN Norm(sub["street1"]) ELSE UNDEF,
   city    |-> IF "city" \in DOMAIN sub THEN Norm(sub["city"]) ELSE UNDEF]
Merged(existing, sub) ==
  [some    |-> TRUE,
   street1 |-> IF "street1" \in DOMAIN sub THEN Norm(sub["street1"])
               ELSE existing.street1,
   city    |-> IF "city" \in DOMAIN sub THEN Norm(sub["city"])
               ELSE existing.city]

\* the operation applied for a scalar root and the value it receives
ScalarWrite(root, value) ==
  IF HasReplace(root)
  THEN [op  |-> "replace",          \* field.replace(normalizedValue ?? "")
        val |-> IF Norm(value) = NULL THEN "" ELSE Norm(value)]
  ELSE [op |-> "set", val |-> Norm(value)]      \* field.set(normalizedValue)

\* the edit branch of handleSubmit: root -> the operation applied to
\* mutable[root] and its argument (the loop visits each grouped root once and
\* calls at most one operation in a visit)
\* (variant: every field of the view is written, staged or not)
EditMutationsAllRoots(ov, d) ==
  LET g == groupByRoot(ov)
  IN [r \in {"name", "email", "address"} |->
        IF r \notin DOMAIN g THEN [op |-> "set", val |-> ViewRoot(d, r)]
        ELSE IF g[r].obj THEN [op |-> "set", val |-> Merged(ViewRoot(d, r), g[r].val)]
        ELSE ScalarWrite(r, g[r].val)]
\* (variant: a dirty scalar root without replace and set ends the loop, and
\* nothing is recorded)
EditMutationsStopAtUnsupported(ov, d) ==
  LET g == groupByRoot(ov)
      issued == {r \in DOMAIN g :
                   IF g[r].obj THEN HasSet(r)
                   ELSE /\ g[r].val # ViewRoot(d, r)
                        /\ (HasReplace(r) \/ HasSet(r))}
      stop == \E r \in DOMAIN g :
                 ~g[r].obj /\ g[r].val # ViewRoot(d, r) /\ ~HasReplace(r) /\ ~HasSet(r)
  IN [r \in (IF stop THEN {} ELSE issued) |->
        IF g[r].obj THEN [op |-> "set", val |-> Merged(ViewRoot(d, r), g[r].val)]
        ELSE ScalarWrite(r, g[r].val)]
EditMutations(ov, d) ==
  LET g == groupByRoot(ov)
      issued == {r \in DOMAIN g :
                   IF g[r].obj THEN HasSet(r)
                   ELSE /\ g[r].val # ViewRoot(d, r)
                        /\ (HasReplace(r) \/ HasSet(r))}
  IN [r \in issued |->
        IF g[r].obj THEN [op |-> "set", val |-> Merged(ViewRoot(d, r), g[r].val)]
        ELSE ScalarWrite(r, g[r].val)]

\* the defaultValues prop
DefaultValues == [name |-> "a"]

\* the create branch of handleSubmit: the mapping passed to model.create
\* (variant: the defaults are spread over the staged values)
CreateDataDefaultsLast(ov) ==
  LET g == groupByRoot(ov)
  IN [r \in DOMAIN DefaultValues \cup DOMAIN g |->
        IF r \in DOMAIN DefaultValues THEN DefaultValues[r]
        ELSE IF g[r].obj THEN [sub \in DOMAIN g[r].val |-> Norm(g[r].val[sub])]
        ELSE Norm(g[r].val)]
CreateData(ov) ==
  LET g == groupByRoot(ov)
  IN [r \in DOMAIN DefaultValues \cup DOMAIN g |->
        IF r \in DOMAIN g
        THEN (IF g[r].obj THEN [sub \in DOMAIN g[r].val |-> Norm(g[r].val[sub])]
              ELSE Norm(g[r].val))
        ELSE DefaultValues[r]]

\* trx.commit() of an edit: every recorded mutation lands in the view
ApplyMuts(d, muts) ==
  [name  |-> IF "name" \in DOMAIN muts THEN muts["name"].val ELSE d.name,
   email |-> IF "email" \in DOMAIN muts THEN muts["email"].val ELSE d.email,
   addr  |-> IF "address" \in DOMAIN muts THEN muts["address"].val ELSE d.addr]

\* the entity Model.create builds from the mapping
NewEntity(cd) ==
  [name |-> IF "name" \in DOMAIN cd THEN cd["name"] ELSE UNDEF,
   email |-> IF "email" \in DOMAIN cd THEN cd["email"] ELSE UNDEF,
   addr |-> IF "address" \in DOMAIN cd
            THEN LET a == cd["address"]
                 IN [some    |-> TRUE,
                     street1 |-> IF "street1" \in DOMAIN a THEN a["street1"] ELSE UNDEF,
                     city    |-> IF "city" \in DOMAIN a THEN a["city"] ELSE UNDEF]
            ELSE NoAddress]

\* the id of the view Model.create returns: the first unused one
NewId == IF createdView = NONE THEN FirstCreated ELSE createdView + 1

\* what handleSubmit captures and records before its first await
SubmitRecord ==
  IF ~isNew
  THEN [kind |-> "edit", ent |-> view, phase |-> "commit",
        payload |-> EditMutations(overlay, data),
        stops |-> (StopEditingOf(formMode, isEditing) # isEditing)]
  ELSE [kind |-> "create", ent |-> NONE, phase |-> "create",
        payload |-> CreateData(overlay), stops |-> FALSE]

\* (variant: a second transaction is begun for the same mutations)
StartedTwice(rec) == inflight (+) SetToBag({rec}) (+) SetToBag({rec})
Started(rec) == inflight (+) SetToBag({rec})
Settled(rec) == inflight (-) SetToBag({rec})

\* <Submit> is disabled={!hasDirtyFields || isSubmitting}
SubmitButtonEnabled == hasDirtyFields /\ ~isSubmitting

\* handleSubmit up to its first await.  via "button": a click on <Submit>;
\* via "form": any other submit event of the <form> (an own submit button,
\* Enter in a form without <Submit>, requestSubmit()).
HandleSubmitUpTo(via, cap) ==
  /\ settled
  /\ deps                          \* getDeps() returns
  /\ BagCardinality(inflight) < cap
  /\ via = "button" => SubmitButtonEnabled
  /\ isSubmitting' = TRUE
  /\ saveError' = NULL
  /\ inflight' = Started(SubmitRecord)
  /\ needsRender' = (~isSubmitting \/ saveError # NULL)
  /\ lastOp' = "submit"
  /\ lastArg' = <<>>
  /\ UNCHANGED <<deps, mounted, props, createdView, isEditing, wasCreating, overlay, guard,
                 rEntityId, rEditing, hasDirtyFields, overlayFresh, data>>

HandleSubmit(via) == HandleSubmitUpTo(via, MaxInFlight)

\* `await model.create(trx, createData)` resolves with the new view
CreateResolve(rec) ==
  /\ settled
  /\ rec.phase = "create"
  /\ inflight' = Settled(rec) (+) SetToBag({[rec EXCEPT !.phase = "commit"]})
  /\ lastOp' = "createOk"
  /\ lastArg' = <<>>
  /\ UNCHANGED <<deps, mounted, props, createdView, isEditing, wasCreating, overlay,
                 saveError, isSubmitting, guard, rEntityId, rEditing,
                 hasDirtyFields, overlayFresh, needsRender, data>>

\* the callback props the catch block invokes
FailureCalls == <<"onError">>

\* const message = error instanceof Error ? error.message : "Save failed"
FailureMessage(err) == IF err.isError THEN err.message ELSE "Save failed"

\* what getDeps() throws while _deps is null
NotInitialized ==
  [isError |-> TRUE,
   message |-> "Ankurah forms not initialized. Call initAnkurahForms(...) first."]

\* handleSubmit while _deps is null: getDeps() throws inside the try, before
\* any await, so the catch and the finally run in the same event
HandleSubmitThrows(via) ==
  /\ settled
  /\ ~deps
  /\ via = "button" => SubmitButtonEnabled
  /\ saveError' = FailureMessage(NotInitialized)
  /\ isSubmitting' = FALSE
  /\ needsRender' = (saveError # FailureMessage(NotInitialized) \/ isSubmitting)
  /\ lastOp' = "submitThrows"
  /\ lastArg' = <<NotInitialized, FailureCalls>>
  /\ UNCHANGED <<deps, mounted, props, createdView, isEditing, wasCreating,
                 overlay, guard, rEntityId, rEditing, hasDirtyFields,
                 overlayFresh, data, inflight>>

\* model.create or trx.commit rejects: catch, then finally
\* (variant: the catch block also drops the staged edits)
SettleRejectDropping(rec, err) ==
  /\ settled
  /\ saveError' = FailureMessage(err)
  /\ isSubmitting' = FALSE
  /\ overlay' = EmptyOverlay
  /\ overlayFresh' = TRUE
  /\ inflight' = Settled(rec)
  /\ needsRender' = TRUE
  /\ lastOp' = "settleFail"
  /\ lastArg' = <<err, FailureCalls>>
  /\ UNCHANGED <<deps, mounted, props, createdView, isEditing, wasCreating, guard,
                 rEntityId, rEditing, hasDirtyFields, data>>
SettleReject(rec, err) ==
  /\ settled
  /\ saveError' = FailureMessage(err)
  /\ isSubmitting' = FALSE
  /\ inflight' = Settled(rec)
  /\ needsRender' = (saveError # FailureMessage(err) \/ isSubmitting)
  /\ lastOp' = "settleFail"
  /\ lastArg' = <<err, FailureCalls>>
  /\ UNCHANGED <<deps, mounted, props, createdView, isEditing, wasCreating, overlay, guard,
                 rEntityId, rEditing, hasDirtyFields, overlayFresh, data>>

\* what the transaction holds when its commit runs: the mutations recorded on
\* `mutable`, or the mapping passed to model.create, before the first await
\* (variant: planned again from the overlay and view of the commit's moment)
LandedReplanned(rec) ==
  IF rec.kind = "edit" THEN EditMutations(overlay, data) ELSE CreateData(overlay)
Landed(rec) == rec.payload

\* the callback props invoked after a commit that resolved, in order
\* (variant: the edit branch's callback also fires after a create)
SuccessCallsShared(rec) ==
  IF rec.kind = "edit"
  THEN (IF rec.stops THEN <<"onStopEditing">> ELSE <<>>) \o <<"onSuccess">>
  ELSE <<"onCreate", "onSuccess">>
SuccessCalls(rec) ==
  IF rec.kind = "edit"
  THEN (IF rec.stops THEN <<"onStopEditing">> ELSE <<>>) \o <<"onSuccess">>
  ELSE <<"onCreate">>

\* `await trx.commit()` resolves: the mutations land in the entity (the
\* subscriber's prune of that change is overwritten by the setOverlay({})
\* that follows), then the code after the await runs, then finally
CommitResolve(rec) ==
  /\ settled
  /\ rec.phase = "commit"
  /\ IF rec.kind = "edit"
     THEN /\ data' = IF rec.ent = view THEN ApplyMuts(data, Landed(rec)) ELSE data
          /\ isEditing' = IF rec.stops THEN FALSE ELSE isEditing
          /\ UNCHANGED createdView
     ELSE /\ data' = IF viewProp = NONE THEN NewEntity(Landed(rec)) ELSE data
          /\ createdView' = NewId
          /\ UNCHANGED isEditing
  /\ overlay' = EmptyOverlay
  /\ overlayFresh' = TRUE
  /\ isSubmitting' = FALSE
  /\ inflight' = Settled(rec)
  /\ needsRender' = TRUE
  /\ lastOp' = "settleOk"
  /\ lastArg' = <<rec.kind, SuccessCalls(rec),
                  IF rec.kind = "create" THEN NewId ELSE NONE>>
  /\ UNCHANGED <<deps, mounted, props, wasCreating, saveError, guard, rEntityId, rEditing,
                 hasDirtyFields>>

\* the steps that leave the submit handler aside
Others ==
  \/ Render
  \/ \E p \in Paths : \E v \in Inputs(p) : SetField(p, v)
  \/ ClearSaveError
  \/ EditTriggerClick
  \/ FieldClick
  \/ FormClick
  \/ CancelClick
  \/ \E inside \in BOOLEAN : FormBlur(inside)
  \/ \E v \in {NONE} \cup PropViews : SetViewProp(v)
  \/ \E rec \in BagToSet(inflight) : CreateResolve(rec)
  \/ \E rec \in BagToSet(inflight) : \E err \in Rejections : SettleReject(rec, err)
  \/ \E rec \in BagToSet(inflight) : CommitResolve(rec)
  \/ \E n \in RemoteNames : RemoteUpdate([data EXCEPT !.name = n])
  \/ \E a \in RemoteAddresses : RemoteUpdate([data EXCEPT !.addr = a])

Next ==
  \/ Others
  \/ \E via \in {"button", "form"} : HandleSubmit(via)

\* a form with the default props
Spec == Init /\ [][Next]_vars

\* every mode and trigger; here a submit starts only when none is in flight
NextProps ==
  \/ Others
  \/ \E via \in {"button", "form"} : HandleSubmitUpTo(via, 1)

SpecProps == InitProps /\ [][NextProps]_vars

\* the life of one instance: the backend may be supplied late or never, and
\* the parent may unmount the form; one submit at a time
InitLife == deps \in BOOLEAN /\ InitWith({DEFAULT}, {"field"})

NextLife ==
  \/ Others
  \/ \E via \in {"button", "form"} : HandleSubmitUpTo(via, 1)
  \/ \E via \in {"button", "form"} : HandleSubmitThrows(via)
  \/ InitAnkurahForms
  \/ Unmount

SpecLife == InitLife /\ [][NextLife]_vars

\* --------------------------------------------------- the commit planner
\* A form that has rendered and is editing, with every overlay the fields of
\* a richer form can stage.  handleSubmit reads the overlay of its closure
\* (the last render) but the view live, so an entry may equal the view's
\* value: a change of the view whose notification has not been rendered yet.
EmailPath == <<"email">>
NotePath == <<"note">>
StreetPath == <<"address", "street1">>
PlanPaths == {NamePath, EmailPath, NotePath, CityPath, StreetPath}
PlanInputs(p) ==
  IF p = NamePath THEN {"", "a", "b"}
  ELSE IF p = EmailPath THEN {"", "e", "f"}
  ELSE IF p = NotePath THEN {"n"}
  ELSE IF p = CityPath THEN {"", "x"}
  ELSE {"", "t"}
PlanOverlays ==
  UNION {{ov \in [P -> UNION {PlanInputs(p) : p \in PlanPaths}] :
            \A p \in P : ov[p] \in PlanInputs(p)} : P \in SUBSET PlanPaths}
PlanData ==
  {[name |-> n, email |-> e, addr |-> a] :
     n \in {"a", "b"}, e \in {"e", NULL}, a \in RemoteAddresses}

InitPlan ==
  /\ deps = TRUE
  /\ mounted = TRUE
  /\ viewProp \in {NONE, 1}
  /\ modeProp = DEFAULT
  /\ editTrigger = "field"
  /\ createdView = NONE
  /\ isEditing = (viewProp # NONE)
  /\ wasCreating = (viewProp = NONE)
  /\ overlay \in PlanOverlays
  /\ saveError = NULL
  /\ isSubmitting = FALSE
  /\ guard = viewProp
  /\ rEntityId = viewProp
  /\ rEditing = TRUE
  /\ data \in (IF viewProp = NONE THEN {NoData} ELSE PlanData)
  /\ hasDirtyFields = (IF viewProp = NONE THEN ComputeDirty(overlay, NONE, data)
                       ELSE overlay # EmptyOverlay)
  /\ overlayFresh = FALSE
  /\ needsRender = FALSE
  /\ inflight = EmptyBag
  /\ lastOp = "init"
  /\ lastArg = <<>>

NextPlan ==
  \/ Render
  \/ \E via \in {"button", "form"} : HandleSubmitUpTo(via, 1)
  \/ \E rec \in BagToSet(inflight) : CreateResolve(rec)
  \/ \E rec \in BagToSet(inflight) : \E err \in Rejections : SettleReject(rec, err)
  \/ \E rec \in BagToSet(inflight) : CommitResolve(rec)

SpecPlan == InitPlan /\ [][NextPlan]_vars

\* the same form with its scheduling: React renders every pending update;
\* the backend owes no answer, so model.create and trx.commit may stay pending
SpecPending == InitPlan /\ [][NextPlan]_vars /\ WF_vars(Render)

\* ------------------------------------------------------------ a <Field>
\* what <Field name=...> computes at a render from the form's context
\* const viewValue = getNestedValue(view, name) ?? ""
FieldViewValue(e, d, name) ==
  IF getNestedValue(e, d, name) \in {NULL, UNDEF} THEN "" ELSE getNestedValue(e, d, name)

\* const value = name in overlay ? overlay[name] : viewValue
\* (variant: overlay[name] ?? viewValue)
FieldValueCoalescing(ov, e, d, name) ==
  IF name \in DOMAIN ov /\ ov[name] \notin {NULL, UNDEF}
  THEN ov[name] ELSE FieldViewValue(e, d, name)
FieldValue(ov, e, d, name) ==
  IF name \in DOMAIN ov THEN ov[name] ELSE FieldViewValue(e, d, name)

\* const dirty = name in overlay && overlay[name] !== viewValue
FieldDirty(ov, e, d, name) == name \in DOMAIN ov /\ ov[name] # FieldViewValue(e, d, name)

\* value={value ?? ""}: what the input element then shows
Shown(v) == IF v \in {NULL, UNDEF} THEN "" ELSE v

\* The fields of the richer form, edited while the view changes remotely.  A
\* text input stages strings; the email field is also rendered by the number
\* input, whose onChange stages null when the input is emptied.
FieldInputs(p) == IF p = EmailPath THEN PlanInputs(p) \cup {NULL} ELSE PlanInputs(p)
RemoteEmails == {"e", NULL}

InitField == InitPlan /\ overlay = EmptyOverlay

NextField ==
  \/ Render
  \/ \E p \in PlanPaths : \E v \in FieldInputs(p) : SetField(p, v)
  \/ \E n \in RemoteNames : RemoteUpdate([data EXCEPT !.name = n])
  \/ \E e \in RemoteEmails : RemoteUpdate([data EXCEPT !.email = e])
  \/ \E a \in RemoteAddresses : RemoteUpdate([data EXCEPT !.addr = a])

SpecField == InitField /\ [][NextField]_vars

\* ================================================================ claims
\* no entry of ov equals the value the view (e, d) holds at its path
NoStaleEntry(ov, e, d) ==
  \A k \in DOMAIN ov : ov[k] # getNestedValue(e, d, k)

\* C1 - Reconciliation convergence: right after the session has processed a
\* view-change notification no overlay entry equals the view's current value
\* at its path; and once an emptied overlay has been rendered, hasDirtyFields
\* is false.
C1_Convergence ==
  /\ lastOp = "notify" => NoStaleEntry(overlay, view, data)
  /\ (settled /\ view # NONE /\ overlay = EmptyOverlay) => ~hasDirtyFields

\* C1 witness: a notification has just pruned the only staged edit, which
\* the last render still showed as dirty.
C1_Witness ==
  /\ lastOp = "notify"
  /\ overlayFresh
  /\ overlay = EmptyOverlay
  /\ hasDirtyFields

\* C2 - While a submit is in flight a second one cannot start, however the
\* submit handler is triggered: at most one submit has begun a transaction and
\* not yet settled.
C2_OneSubmitInFlight == BagCardinality(inflight) <= 1

\* C3 - While a submit is in flight, the exit-editing and identity-change
\* effects (they run in Render) do not empty the overlay.
C3_NoClearInFlight ==
  [][(lastOp' = "render" /\ inflight # EmptyBag) => overlay' = overlay]_vars

\* what a submit started now would record
PlanNow == IF isNew THEN CreateData(overlay) ELSE EditMutations(overlay, data)

\* C4 - The mutations of a submit are those planned from the overlay and view
\* of the moment it started: the start records exactly that plan; no step
\* other than a submit's own start and settlement changes a recorded plan
\* (a prune or any other overlay change included); and what lands at the
\* commit is the recorded plan.
C4_PlanFixedAtStart ==
  [][ /\ lastOp' = "submit" =>
           \E rec \in BagToSet(inflight') :
              /\ inflight' = inflight (+) SetToBag({rec})
              /\ rec.payload = PlanNow
      /\ lastOp' \notin {"submit", "createOk", "settleOk", "settleFail"} =>
           inflight' = inflight
      /\ lastOp' = "createOk" =>
           \E rec \in BagToSet(inflight) :
              inflight' = (inflight (-) SetToBag({rec}))
                            (+) SetToBag({[rec EXCEPT !.phase = "commit"]})
      /\ lastOp' = "settleOk" =>
           \E rec \in BagToSet(inflight) :
              /\ inflight' = inflight (-) SetToBag({rec})
              /\ (rec.kind = "edit" /\ rec.ent = view) =>
                   data' = ApplyMuts(data, rec.payload)
              /\ (rec.kind = "create" /\ viewProp = NONE) =>
                   data' = NewEntity(rec.payload)
    ]_vars

\* C4 witness: a notification has just pruned the overlay while an edit
\* submit of the bound view awaits its commit, and the recorded plan is no
\* longer what the overlay and view would give.
C4_Witness ==
  /\ lastOp = "notify"
  /\ overlayFresh
  /\ \E rec \in BagToSet(inflight) :
        /\ rec.kind = "edit"
        /\ rec.ent = view
        /\ rec.payload # EditMutations(overlay, data)

\* C5 - When the create call or the commit of a submit rejects, the overlay
\* is what it was before the rejection, isSubmitting is false again, and
\* saveError holds the rejection's message if the rejection is an Error and
\* the text "Save failed" otherwise.
C5_FailureKeepsOverlay ==
  [][lastOp' = "settleFail" =>
       /\ overlay' = overlay
       /\ isSubmitting' = FALSE
       /\ saveError' = (IF lastArg'[1].isError THEN lastArg'[1].message
                        ELSE "Save failed")]_vars

\* C5 witness: a submit with staged edits has just been rejected with an
\* Error, whose message saveError shows.
C5_Witness ==
  /\ lastOp = "settleFail"
  /\ overlay # EmptyOverlay
  /\ lastArg[1].isError
  /\ saveError = lastArg[1].message
  /\ ~isSubmitting

\* C5 as stated - after a rejection the overlay is unchanged, isSubmitting is
\* false and saveError holds the message of the failure, whatever was thrown.
C5_FailureMessageShown ==
  [][lastOp' = "settleFail" =>
       /\ overlay' = overlay
       /\ isSubmitting' = FALSE
       /\ saveError' = lastArg'[1].message]_vars

\* C6 - setField(p, v) on a bound view with v the view's current value at p
\* leaves p absent from the overlay, whether or not it was staged, and every
\* other entry as it was.
C6_SetFieldIdempotent ==
  [][(/\ lastOp' = "setField"
      /\ view # NONE
      /\ lastArg'[2] = getNestedValue(view, data, lastArg'[1])) =>
       /\ lastArg'[1] \notin DOMAIN overlay'
       /\ \A q \in Paths \ {lastArg'[1]} :
             /\ q \in DOMAIN overlay' <=> q \in DOMAIN overlay
             /\ q \in DOMAIN overlay => overlay'[q] = overlay[q]]_vars

\* C6 witness: a staged field has just been set back to the view's value and
\* was removed, while another staged field remains.
C6_Witness ==
  /\ lastOp = "setField"
  /\ view # NONE
  /\ lastArg[2] = getNestedValue(view, data, lastArg[1])
  /\ overlayFresh
  /\ overlay # EmptyOverlay

\* the dirtiness of the form, written out from the overlay and the view
IsDirty ==
  IF view = NONE
  THEN \E k \in DOMAIN overlay : overlay[k] # ""
  ELSE \E k \in DOMAIN overlay : overlay[k] # getNestedValue(view, data, k)

\* C7 - hasDirtyFields, as every completed render shows it, is true exactly
\* when some overlay entry differs from the view's value at its path (edit
\* mode) or is not the empty string (create mode); and it is still so right
\* after a remote change that pruned no key, when the memo is not recomputed.
C7_DirtyCorrect ==
  (settled \/ (lastOp = "notify" /\ ~overlayFresh)) => (hasDirtyFields <=> IsDirty)

\* C7 witness: a remote change has just been notified that pruned nothing
\* from an overlay holding a staged edit.
C7_Witness ==
  /\ lastOp = "notify"
  /\ ~overlayFresh
  /\ overlay # EmptyOverlay
  /\ hasDirtyFields

\* the requests to start or stop editing
ActivationOps ==
  {"editTrigger", "fieldClick", "formClick", "cancel", "blurInside", "blurOut"}

\* C8 - In mode "r" the form is never editing and in mode "w" it always is,
\* as derived and as rendered; there a click, Cancel or blur changes nothing,
\* and a successful submit leaves a mode "w" form editing.
C8_ModeFixed ==
  [][ /\ formMode = "r" => (~editing /\ ~rEditing)
      /\ formMode' = "r" => (~editing' /\ ~rEditing')
      /\ formMode = "w" => editing
      /\ formMode' = "w" => (editing' /\ (lastOp' = "render" => rEditing'))
      /\ (formMode \in {"r", "w"} /\ lastOp' \in ActivationOps) =>
           /\ isEditing' = isEditing
           /\ overlay' = overlay
           /\ saveError' = saveError
           /\ ~needsRender'
      /\ (modeProp = "w" /\ lastOp' = "settleOk") =>
           (isEditing' = isEditing /\ editing')
    ]_vars

\* C8 witness: a form in mode "w", bound to a view, has had a submit succeed
\* and still renders as editing.
C8_Witness ==
  /\ modeProp = "w"
  /\ view # NONE
  /\ lastOp = "settleOk"
  /\ editing
  /\ rEditing

\* C9 - In mode "rw", the render that processes a change from editing to not
\* editing leaves the overlay empty and saveError null.
C9_ExitClears ==
  (lastOp = "render" /\ lastArg[2] /\ formMode = "rw") =>
    (overlay = EmptyOverlay /\ saveError = NULL)

\* C9 witness: such a render has just run on a form that still held staged
\* edits.
C9_Witness ==
  /\ lastOp = "render"
  /\ lastArg[2]
  /\ lastArg[3]
  /\ formMode = "rw"
  /\ rEntityId = view

\* C10 - The render that processes a change of the bound entity's identity
\* leaves the overlay empty and saveError null, whether or not the form was
\* editing.
C10_IdentityClears ==
  (lastOp = "render" /\ lastArg[1]) => (overlay = EmptyOverlay /\ saveError = NULL)

\* C10 witness: such a render has just run on a form that held staged edits
\* for the previous entity and is now bound to another view.
C10_Witness ==
  /\ lastOp = "render"
  /\ lastArg[1]
  /\ lastArg[3]
  /\ view \in PropViews

\* C11 - When a form with no bound view becomes bound to one (after a
\* successful create, or by the view prop), it stays editing: the render that
\* processes the binding renders the form as editing.
C11_StaysEditing ==
  (lastOp = "render" /\ lastArg[4]) => rEditing

\* C12 - In mode "rw" a blur ends editing only when focus leaves the form
\* and hasDirtyFields is false; a blur to an element inside the form never
\* changes the editing state, and a blur out of a dirty form changes neither
\* the editing state nor the overlay.
C12_BlurRule ==
  [][ /\ (formMode = "rw" /\ lastOp' \in {"blurInside", "blurOut"}
           /\ isEditing' # isEditing) =>
           (lastOp' = "blurOut" /\ ~hasDirtyFields /\ isEditing /\ ~isEditing')
      /\ (formMode = "rw" /\ lastOp' = "blurInside") =>
           (isEditing' = isEditing /\ overlay' = overlay)
      /\ (formMode = "rw" /\ lastOp' = "blurOut" /\ hasDirtyFields) =>
           (isEditing' = isEditing /\ overlay' = overlay /\ ~needsRender')
      /\ (formMode = "rw" /\ lastOp' = "blurOut" /\ ~hasDirtyFields /\ isEditing) =>
           ~isEditing'
    ]_vars

\* C12 witness: focus has just left an editing form in mode "rw" that holds a
\* dirty field, and the form is still editing.
C12_Witness ==
  /\ lastOp = "blurOut"
  /\ formMode = "rw"
  /\ hasDirtyFields
  /\ overlay # EmptyOverlay
  /\ isEditing
  /\ rEditing

Plans == {rec.payload : rec \in BagToSet(inflight)}
\* the roots some overlay entry belongs to
StagedRoots == {k[1] : k \in DOMAIN overlay}
\* the field of an embedded value a sub-path names
SubValue(a, sub) == IF sub = "city" THEN a.city ELSE a.street1

\* C14 - An edit submit issues no mutation on a root that has no overlay
\* entry (bare or dotted), and one mutation on every root that has a dirty
\* overlay entry and whose handle exposes replace or set, carrying the staged
\* value where that is not the empty string.
C14_OnlyDirtySupportedWritten ==
  (lastOp = "submit" /\ ~isNew) =>
    \A m \in Plans :
      /\ DOMAIN m \subseteq StagedRoots
      /\ \A k \in DOMAIN overlay :
            (/\ overlay[k] # getNestedValue(view, data, k)
             /\ (HasReplace(k[1]) \/ HasSet(k[1]))) =>
              /\ k[1] \in DOMAIN m
              /\ (Len(k) = 1 /\ overlay[k] # "") => m[k[1]].val = overlay[k]
              /\ (Len(k) = 2 /\ overlay[k] # "") =>
                   SubValue(m[k[1]].val, k[2]) = overlay[k]

\* C14 witness: an edit submit has just started with only the email staged
\* ("f" over "e"), and its plan is the one mutation of email.
C14_Witness ==
  /\ lastOp = "submit"
  /\ ~isNew
  /\ DOMAIN overlay = {EmailPath}
  /\ overlay[EmailPath] = "f"
  /\ data.email = "e"
  /\ \E m \in Plans : DOMAIN m = {"email"} /\ m["email"].val = "f"

\* C14 as stated - an edit submit issues no mutation on a root without
\* overlay entry and one mutation on every root that has a dirty overlay
\* entry, carrying the staged value.
C14_OnlyDirtyWritten ==
  (lastOp = "submit" /\ ~isNew) =>
    \A m \in Plans :
      /\ DOMAIN m \subseteq StagedRoots
      /\ \A k \in DOMAIN overlay :
            overlay[k] # getNestedValue(view, data, k) =>
              /\ k[1] \in DOMAIN m
              /\ Len(k) = 1 => m[k[1]].val = overlay[k]
              /\ Len(k) = 2 => SubValue(m[k[1]].val, k[2]) = overlay[k]

\* the staged sub-fields of address
AddressSubs == {k[2] : k \in {q \in DOMAIN overlay : Len(q) = 2 /\ q[1] = "address"}}
\* a staged value as a mutation carries it
Carried(v) == IF v = "" THEN NULL ELSE v

\* C15 - For a root staged through dotted sub-paths an edit submit issues one
\* set on that root; its value has every staged sub-field at its staged
\* value, a staged empty string as null, and every other sub-field at the
\* view's value (absent when the view holds no such object).
C15_EmbeddedMerge ==
  (lastOp = "submit" /\ ~isNew /\ AddressSubs # {}) =>
    \A m \in Plans :
      /\ "address" \in DOMAIN m
      /\ m["address"].op = "set"
      /\ \A sub \in {"street1", "city"} :
            SubValue(m["address"].val, sub) =
              IF sub \in AddressSubs THEN Carried(overlay[<<"address", sub>>])
              ELSE SubValue(data.addr, sub)

\* C15 witness: an edit submit has just started with only address.street1
\* staged over a view that holds an address; the plan sets the address with
\* the new street and the view's city.
C15_Witness ==
  /\ lastOp = "submit"
  /\ ~isNew
  /\ DOMAIN overlay = {StreetPath}
  /\ overlay[StreetPath] = "t"
  /\ data.addr = Address("s", "x")
  /\ \E m \in Plans : m["address"].val = Address("t", "x")

\* C16 - For a scalar root whose staged value is the empty string and differs
\* from the view's value, a field exposing replace receives replace("") and a
\* field exposing only set receives set(null); replace is used when the field
\* has it, otherwise set.
C16_EmptyNormalised ==
  (lastOp = "submit" /\ ~isNew) =>
    \A m \in Plans :
      \A k \in {q \in DOMAIN overlay : Len(q) = 1} :
        (overlay[k] # ViewRoot(data, k[1]) /\ (HasReplace(k[1]) \/ HasSet(k[1]))) =>
          /\ m[k[1]].op = (IF HasReplace(k[1]) THEN "replace" ELSE "set")
          /\ overlay[k] = "" =>
               m[k[1]].val = (IF HasReplace(k[1]) THEN "" ELSE NULL)

\* C16 witness: an edit submit has just started with name and email both
\* staged as the empty string; the plan is replace("") and set(null).
C16_Witness ==
  /\ lastOp = "submit"
  /\ ~isNew
  /\ NamePath \in DOMAIN overlay /\ overlay[NamePath] = ""
  /\ EmailPath \in DOMAIN overlay /\ overlay[EmailPath] = ""
  /\ data.email = "e"
  /\ \E m \in Plans :
        /\ m["name"] = [op |-> "replace", val |-> ""]
        /\ m["email"] = [op |-> "set", val |-> NULL]

\* C16 as stated - for a scalar root staged as the empty string, differing
\* from the view's value, the operation receives null whether the field
\* exposes replace or only set.
C16_EmptyBecomesNull ==
  (lastOp = "submit" /\ ~isNew) =>
    \A m \in Plans :
      \A k \in {q \in DOMAIN overlay : Len(q) = 1} :
        (overlay[k] # ViewRoot(data, k[1]) /\ (HasReplace(k[1]) \/ HasSet(k[1]))) =>
          /\ m[k[1]].op = (IF HasReplace(k[1]) THEN "replace" ELSE "set")
          /\ overlay[k] = "" => m[k[1]].val = NULL

\* C17 - An edit submit issues no mutation for a scalar root whose staged
\* value equals the live view value, and no scalar mutation writes a value
\* equal to what the view holds for that field.
C17_NoNoOpWrite ==
  (lastOp = "submit" /\ ~isNew) =>
    \A m \in Plans :
      \A k \in {q \in DOMAIN overlay : Len(q) = 1} :
        /\ overlay[k] = ViewRoot(data, k[1]) => k[1] \notin DOMAIN m
        /\ k[1] \in DOMAIN m => m[k[1]].val # ViewRoot(data, k[1])

\* C18 - Each submit begins exactly one transaction, which holds all its
\* mutations (or its create call) and is settled once, by a commit that
\* resolves or by a rejection; a rejection leaves the view as it was, a
\* resolved commit lands every recorded mutation in the view.
C18_OneTransaction ==
  [][ /\ lastOp' = "submit" =>
           /\ BagCardinality(inflight') = BagCardinality(inflight) + 1
           /\ data' = data
      /\ lastOp' \in {"settleOk", "settleFail"} =>
           \E rec \in BagToSet(inflight) :
              /\ inflight' = inflight (-) SetToBag({rec})
              /\ BagCardinality(inflight') = BagCardinality(inflight) - 1
              /\ lastOp' = "settleFail" =>
                   (data' = data /\ createdView' = createdView)
              /\ (lastOp' = "settleOk" /\ rec.kind = "edit" /\ rec.ent = view) =>
                   /\ rec.phase = "commit"
                   /\ \A r \in DOMAIN rec.payload :
                         ViewRoot(data', r) = rec.payload[r].val
                   /\ \A r \in {"name", "email", "address"} \ DOMAIN rec.payload :
                         ViewRoot(data', r) = ViewRoot(data, r)
              /\ (lastOp' = "settleOk" /\ rec.kind = "create") =>
                   /\ rec.phase = "commit"
                   /\ createdView' # createdView
      /\ lastOp' \notin {"submit", "settleOk", "settleFail"} =>
           BagCardinality(inflight') = BagCardinality(inflight)
    ]_vars

\* C18 witness: the commit of an edit submit has just been rejected; the
\* staged name is still not what the view holds and no submit is in flight.
C18_Witness ==
  /\ lastOp = "settleFail"
  /\ view # NONE
  /\ NamePath \in DOMAIN overlay
  /\ overlay[NamePath] # data.name
  /\ inflight = EmptyBag

\* C19 - The mapping a create submit passes to model.create has the roots of
\* the defaults and of the overlay; a staged root carries the staged value,
\* or the object of its staged sub-fields, with every empty string as null;
\* a default whose root is not staged is passed unchanged.
C19_CreatePayload ==
  (lastOp = "submit" /\ isNew) =>
    \A cd \in Plans :
      /\ DOMAIN cd = DOMAIN DefaultValues \cup StagedRoots
      /\ \A k \in DOMAIN overlay :
            /\ Len(k) = 1 => cd[k[1]] = Carried(overlay[k])
            /\ Len(k) = 2 =>
                 /\ DOMAIN cd[k[1]] = {q[2] : q \in {j \in DOMAIN overlay :
                                                     Len(j) = 2 /\ j[1] = k[1]}}
                 /\ cd[k[1]][k[2]] = Carried(overlay[k])
      /\ \A r \in DOMAIN DefaultValues \ StagedRoots : cd[r] = DefaultValues[r]

\* C19 witness: a create submit has just started with the email staged as
\* the empty string and no name staged; the mapping is the default name and
\* a null email.
C19_Witness ==
  /\ lastOp = "submit"
  /\ isNew
  /\ DOMAIN overlay = {EmailPath}
  /\ overlay[EmailPath] = ""
  /\ \E cd \in Plans : cd = [name |-> "a", email |-> NULL]

\* how often callback c occurs in the calls
Count(calls, c) == Cardinality({i \in DOMAIN calls : calls[i] = c})

\* C20 - After a commit that resolved the overlay is empty; for an edit
\* submit onSuccess has been invoked once and onCreate not; for a create
\* submit onCreate has been invoked once, with the view model.create
\* returned, and onSuccess not, and that view is createdView, which is the
\* bound view unless the parent passes a view prop; after a rejection neither
\* callback has been invoked.
C20_SuccessPostconditions ==
  /\ lastOp = "settleOk" =>
       /\ overlay = EmptyOverlay
       /\ lastArg[1] = "edit" =>
            (Count(lastArg[2], "onSuccess") = 1 /\ Count(lastArg[2], "onCreate") = 0)
       /\ lastArg[1] = "create" =>
            /\ Count(lastArg[2], "onCreate") = 1
            /\ Count(lastArg[2], "onSuccess") = 0
            /\ lastArg[3] = createdView
            /\ viewProp = NONE => view = lastArg[3]
  /\ lastOp = "settleFail" =>
       (Count(lastArg[2], "onSuccess") = 0 /\ Count(lastArg[2], "onCreate") = 0)

\* C20 witness: the commit of a create submit has just resolved; onCreate
\* received the new view, which is now the bound view.
C20_Witness ==
  /\ lastOp = "settleOk"
  /\ lastArg[1] = "create"
  /\ lastArg[2] = <<"onCreate">>
  /\ view = lastArg[3]
  /\ view = FirstCreated
  /\ data.name = "b"

\* C20 as stated - after a resolved commit the overlay is empty, an edit
\* submit has invoked onSuccess once, a create submit has invoked onCreate
\* once with the view model.create returned and that view is the bound view;
\* a failed submit has invoked neither.
C20_CreatedViewBound ==
  /\ lastOp = "settleOk" =>
       /\ overlay = EmptyOverlay
       /\ lastArg[1] = "edit" =>
            (Count(lastArg[2], "onSuccess") = 1 /\ Count(lastArg[2], "onCreate") = 0)
       /\ lastArg[1] = "create" =>
            /\ Count(lastArg[2], "onCreate") = 1
            /\ Count(lastArg[2], "onSuccess") = 0
            /\ lastArg[3] = createdView
            /\ view = lastArg[3]
  /\ lastOp = "settleFail" =>
       (Count(lastArg[2], "onSuccess") = 0 /\ Count(lastArg[2], "onCreate") = 0)

\* ------------------------------------------------------------------ C21
\* C21: every setField call, whatever its path and value (a value equal to
\* the view's included, a call made while a submit is in flight included),
\* leaves saveError null.
C21_SetFieldClearsError == [][lastOp' = "setField" => saveError' = NULL]_vars

\* a setField of the view's own value on an unstaged path met a save error
\* while another submit was still in flight: only the cleared error asks for
\* the render
C21_Witness ==
  /\ lastOp = "setField"
  /\ lastArg[2] = getNestedValue(view, data, lastArg[1])
  /\ ~overlayFresh
  /\ needsRender
  /\ inflight # EmptyBag
  /\ saveError = NULL

\* ------------------------------------------------------------------ C22
\* C22: saveError becomes non-null only because a commit (or create) was
\* rejected; a submit made before initAnkurahForms is not caught and stored
\* in saveError.
C22_OnlyCommitFailed ==
  [][(saveError' # NULL /\ saveError' # saveError) => lastOp' = "settleFail"]_vars

\* ------------------------------------------------------------------ C23
\* C23: when a dirty scalar root's handle exposes neither replace nor set (or
\* is missing), an edit submit issues no mutation for that root, still issues
\* the mutations of every other dirty root, still goes on to commit its
\* transaction, and is not in the error state.
C23_UnsupportedSkipped ==
  (lastOp = "submit" /\ ~isNew /\ NotePath \in DOMAIN overlay) =>
    /\ saveError = NULL
    /\ isSubmitting
    /\ inflight # EmptyBag
    /\ \A rec \in BagToSet(inflight) :
         /\ rec.phase = "commit"
         /\ "note" \notin DOMAIN rec.payload
         /\ \A k \in DOMAIN overlay \ {NotePath} :
              overlay[k] # getNestedValue(view, data, k) => k[1] \in DOMAIN rec.payload

\* an edit submit has just started with a note (no handle), a new email and
\* a new city staged: its transaction awaits the commit with the mutations of
\* email and address only
C23_Witness ==
  /\ lastOp = "submit"
  /\ ~isNew
  /\ DOMAIN overlay = {NotePath, EmailPath, CityPath}
  /\ overlay[EmailPath] = "f"
  /\ data.email = "e"
  /\ saveError = NULL
  /\ \E rec \in BagToSet(inflight) :
       rec.phase = "commit" /\ DOMAIN rec.payload = {"email", "address"}

\* ------------------------------------------------------------------ C24
\* the guard the step into the next state frees, and the view it subscribes to
FreedNext ==
  IF lastOp' = "render" THEN lastArg'[5]
  ELSE IF lastOp' = "unmount" THEN lastArg'[1] ELSE NONE
AcquiredNext == IF lastOp' = "render" THEN lastArg'[6] ELSE NONE

\* C24: the form holds one live subscription, on the bound view, while a view
\* is bound, and none otherwise or once unmounted; a step frees only the guard
\* that is live, subscribes only after freeing the live one, and holds
\* afterwards exactly what it subscribed to (a freed guard is never held, so
\* it is freed once, at the identity change or the unmount).
C24_SubscriptionLifecycle ==
  [][/\ FreedNext # NONE => FreedNext = guard
     /\ (AcquiredNext # NONE /\ guard # NONE) => FreedNext = guard
     /\ guard' = (IF AcquiredNext # NONE THEN AcquiredNext
                  ELSE IF FreedNext # NONE THEN NONE ELSE guard)
     /\ (mounted' /\ ~needsRender') => guard' = view'
     /\ ~mounted' => guard' = NONE]_vars

\* the form is unmounted while it shows the error of a failed submit: the
\* guard of the bound view has just been freed and none is held
C24_Witness ==
  /\ lastOp = "unmount"
  /\ lastArg[1] # NONE
  /\ lastArg[1] = view
  /\ saveError = "commit failed"
  /\ guard = NONE

\* ------------------------------------------------------------------ C25
\* C25: a key enters the overlay only through a setField call for that exact
\* path; no other step (a view-change notification, a submit and its
\* settling, an activation or deactivation, an identity change, a render)
\* adds a key or changes the value of a key that stays.
C25_OverlayMinimal ==
  [][\A k \in DOMAIN overlay' :
        \/ k \in DOMAIN overlay /\ overlay'[k] = overlay[k]
        \/ lastOp' = "setField" /\ lastArg' = <<k, overlay'[k]>>]_vars

\* a notification has just pruned one staged path and kept another
C25_Witness ==
  /\ lastOp = "notify"
  /\ overlayFresh
  /\ overlay # EmptyOverlay

\* ------------------------------------------------------------------ C26
\* C26: for every field path p, the field's dirty flag is true if and only
\* if p is a key of the overlay and overlay[p] differs from the view's value
\* at p as the dot-path getter reads it (null and absent values included).
C26_FieldDirtyByGetter ==
  \A p \in PlanPaths :
    FieldDirty(overlay, view, data, p) <=>
      (p \in DOMAIN overlay /\ overlay[p] # getNestedValue(view, data, p))

C28_CleanSubmitNoOp ==
  [][(~hasDirtyFields /\ lastOp' = "submit") =>
       (inflight' = inflight /\ overlay' = overlay /\ isEditing' = isEditing)]_vars

\* ------------------------------------------------------------------ C29
\* C29: a save does not stay in flight forever: isSubmitting returns to false
\* even when the commit never settles.
C29_SubmitEnds == isSubmitting ~> ~isSubmitting

\* ------------------------------------------------------------------ C30
\* the orders Object.entries can list a set of keys in
Orders(K) ==
  {o \in [1..Cardinality(K) -> K] : \A i, j \in 1..Cardinality(K) : o[i] = o[j] => i = j}

\* C30: grouping the dotted keys of a grouped edit gives the grouped edit
\* back (flattening the grouping of an overlay gives the overlay back, so
\* every overlay of bare names and one-dot paths is covered), and the
\* grouping is the same for every order of the overlay's entries.
C30_GroupRoundTrip ==
  lastOp = "submit" =>
    LET g == groupByRoot(overlay)
    IN /\ Flatten(g) = overlay
       /\ groupByRoot(Flatten(g)) = g
       /\ \A o \in Orders(DOMAIN overlay) : groupByRootLoop(overlay, o) = g

\* a submit has just grouped an overlay with a bare name and both sub-fields
\* of address
C30_Witness ==
  /\ lastOp = "submit"
  /\ {NamePath, CityPath, StreetPath} \subseteq DOMAIN overlay
  /\ LET g == groupByRoot(overlay)
     IN /\ ~g["name"].obj
        /\ g["address"].obj
        /\ DOMAIN g["address"].val = {"city", "street1"}

\* ------------------------------------------------------------------ C31
\* the submit the step into the next state settles
SettledNext ==
  CHOOSE rec \in BagToSet(inflight) : CopiesIn(rec, inflight') < CopiesIn(rec, inflight)

\* C31: when an edit submit of the bound view succeeds, every dirty overlay
\* entry whose root is not among that submit's mutations (an edit staged
\* while the submit was in flight) is still in the overlay, unchanged.
C31_LateEditsKept ==
  [][(lastOp' = "settleOk" /\ SettledNext.kind = "edit" /\ SettledNext.ent = view) =>
       \A k \in DOMAIN overlay :
          (/\ k[1] \notin DOMAIN SettledNext.payload
           /\ overlay[k] # getNestedValue(view, data, k)) =>
            (k \in DOMAIN overlay' /\ overlay'[k] = overlay[k])]_vars

\* ------------------------------------------------------------------ C32
\* C32: once the form has rendered for another identity, the settling
\* (success or failure) of a submit started for the previous entity leaves
\* the overlay, saveError and the editing state as they are.
C32_ForeignSettleIsolated ==
  [][(/\ lastOp' \in {"settleOk", "settleFail"}
      /\ SettledNext.kind = "edit"
      /\ view # NONE
      /\ SettledNext.ent # view) =>
       (overlay' = overlay /\ saveError' = saveError /\ isEditing' = isEditing)]_vars

\* ------------------------------------------------------------------ C33
\* C33: in read-write mode, in every settled state where the form is not
\* editing and no submit is in flight, the overlay is empty and saveError is
\* null.
C33_ViewOnlyClean ==
  (settled /\ formMode = "rw" /\ ~editing /\ inflight = EmptyBag) =>
    (overlay = EmptyOverlay /\ saveError = NULL)

\* ------------------------------------------------------------------ C34
\* C34: a click, an activation call, Cancel or a blur invokes onStartEditing
\* once when it takes the form from not editing to editing and never
\* otherwise, and onStopEditing once when it takes the form from editing to
\* not editing and never otherwise; so does the success of an edit submit.
C34_CallbackOncePerTransition ==
  [][/\ lastOp' \in ActivationOps =>
          /\ Count(lastArg', "onStartEditing") = (IF ~editing /\ editing' THEN 1 ELSE 0)
          /\ Count(lastArg', "onStopEditing") = (IF editing /\ ~editing' THEN 1 ELSE 0)
     /\ (lastOp' = "settleOk" /\ SettledNext.kind = "edit") =>
          /\ Count(lastArg'[2], "onStartEditing") = 0
          /\ Count(lastArg'[2], "onStopEditing") = (IF editing /\ ~editing' THEN 1 ELSE 0)]_vars

\* ------------------------------------------------------------------ C35
\* C35: isSubmitting is true in exactly the states where some submit has
\* started and not yet settled.
C35_SubmittingExact == isSubmitting <=> inflight # EmptyBag

====
